---- MODULE Spec2Model ----
(***************************************************************************)
(* A model of IctQuoteBot: bot_run.py (daily slot plan, block store,       *)
(* dispatch loop), weekly_thread.py (one thread per run, taken from        *)
(* threads.txt in file order) and self_quote.py (the pool of rows a        *)
(* self-quote is drawn from).                                              *)
(*                                                                         *)
(* Representation.                                                         *)
(*  - A text file is the sequence of lines read_lines() returns for it     *)
(*    (str.splitlines): the lines carry no line terminator.                *)
(*  - A line is a string of the alphabet Lines; str.strip and str.rstrip   *)
(*    are tabulated on that alphabet (strip, rstrip).                      *)
(*  - A normalized block text (" ".join of the stripped non-blank lines)   *)
(*    is the sequence of those stripped lines: no line of the alphabet     *)
(*    holds an inner space, so the join is injective on it.                *)
(*  - A wall-clock instant is <<day, minute of the day>>; a "%H:%M" string *)
(*    is <<hour, minute>>, compared as zero-padded strings compare.        *)
(*  - The text of threads.txt, which weekly_thread.py splits on the        *)
(*    substring "\n---\n", is a sequence of tokens: the contents of its     *)
(*    non-empty lines, and NL for every line terminator.                   *)
(***************************************************************************)
EXTENDS Integers, Sequences, FiniteSets, TLC

VARIABLES
    tweets,         \* TWEETS_FILE: the lines of tweets.txt
    postedFile,     \* POSTED_FILE: the entries appended to posted_tweets.txt
    postState,      \* POST_STATE: the content of .post_state.json, or NoFile
    SLOTS_PER_DAY,  \* module globals read from the environment at import
    START_HOUR,
    END_HOUR,
    WINDOW_MIN,
    clock,          \* the wall clock (ET): <<day, minute>>
    pc,             \* position of the running invocation
    blocks,         \* main(): the in-memory block list
    state,          \* main(): the in-memory state dict
    due,            \* main(): the due slot
    res,            \* post_random_block(): the outcome of the last post_to_x()
    hist,           \* what the running invocation saw and did (for the properties)
    threads,        \* weekly_thread: THREADS_FILE, the text of threads.txt
    threadState,    \* weekly_thread: STATE_FILE, .thread_state.json, or NoFile
    MAX_TWEETS,     \* weekly_thread: module global read from the environment
    wt,             \* weekly_thread: what the last run saw and did (for the properties)
    rows,           \* self_quote: the rows read from posted.jsonl, oldest first
    SKIP_RECENT,    \* self_quote: module globals read from the environment
    MIN_AGE_HOURS,
    pool            \* self_quote: what eligible_pool() returned, or None

vars == <<tweets, postedFile, postState, SLOTS_PER_DAY, START_HOUR, END_HOUR,
          WINDOW_MIN, clock, pc, blocks, state, due, res, hist,
          threads, threadState, MAX_TWEETS, wt,
          rows, SKIP_RECENT, MIN_AGE_HOURS, pool>>

config == <<SLOTS_PER_DAY, START_HOUR, END_HOUR, WINDOW_MIN>>

\* the variables of weekly_thread.py and of self_quote.py
weekly == <<threads, threadState, MAX_TWEETS, wt>>
quote == <<rows, SKIP_RECENT, MIN_AGE_HOURS, pool>>

----------------------------------------------------------------------------
(* Bounds of the model *)

MaxLines == 5          \* longest content file drawn by Init
MaxRawLen == 2         \* longest raw block passed to delete_block from outside

----------------------------------------------------------------------------
(* Lines and the string conversions the code applies to them *)

SEPARATOR == "---"

\* the lines a content file is drawn from: two content lines, a blank
\* (whitespace-only) line and the separator
InputLines == {"A", "B", " ", SEPARATOR}

\* the lines of a file in any state: write_lines() can leave an empty line
Lines == InputLines \cup {""}

\* a separator line with a trailing blank, as threads.txt can hold one
PADDED_SEPARATOR == "--- "

\* str.strip() on the alphabet
strip(ln) == IF ln = " " THEN "" ELSE IF ln = PADDED_SEPARATOR THEN SEPARATOR ELSE ln

\* str.rstrip() on the alphabet
rstrip(ln) == IF ln = " " THEN "" ELSE IF ln = PADDED_SEPARATOR THEN SEPARATOR ELSE ln

RECURSIVE SeqsUpTo(_, _)
SeqsUpTo(S, n) ==
    IF n = 0 THEN {<<>>}
    ELSE LET shorter == SeqsUpTo(S, n - 1)
         IN  shorter \cup {Append(s, x) : s \in {t \in shorter : Len(t) = n - 1}, x \in S}

\* Python's lines[a:b] for 0 <= a, b <= len(lines)
Slice(lines, a, b) == SubSeq(lines, a + 1, b)

----------------------------------------------------------------------------
(* File IO helpers *)

\* write_lines() followed by read_lines(): "\n".join(lines).rstrip() drops the
\* trailing whitespace of the text, that is every trailing blank line and the
\* trailing whitespace of the last non-blank line
write_lines(lines) ==
    IF lines = <<>> THEN <<>>
    ELSE LET keep == {k \in 1..Len(lines) : rstrip(lines[k]) # ""}
         IN  IF keep = {} THEN <<"">>
             ELSE LET last == CHOOSE k \in keep : \A j \in keep : j <= k
                  IN  Append(SubSeq(lines, 1, last - 1), rstrip(lines[last]))

----------------------------------------------------------------------------
(* tweets.txt blocks *)

\* " ".join(s.strip() for s in buf if s.strip())
RECURSIVE normalized(_)
normalized(buf) ==
    IF buf = <<>> THEN <<>>
    ELSE IF strip(Head(buf)) # "" THEN <<strip(Head(buf))>> \o normalized(Tail(buf))
         ELSE normalized(Tail(buf))

\* load_blocks.flush()
flush(buf, acc) ==
    IF buf = <<>> THEN acc
    ELSE IF normalized(buf) # <<>>
         THEN Append(acc, [text |-> normalized(buf), raw |-> buf])
         ELSE acc

RECURSIVE scan_lines(_, _, _)
scan_lines(lines, buf, acc) ==
    IF lines = <<>> THEN flush(buf, acc)
    ELSE IF strip(Head(lines)) = SEPARATOR
         THEN scan_lines(Tail(lines), <<>>, flush(buf, acc))
         ELSE scan_lines(Tail(lines), Append(buf, Head(lines)), acc)

\* load_blocks() without its final check: the blocks of the file, in order
parse_blocks(lines) == scan_lines(lines, <<>>, <<>>)

\* load_blocks() raises ValueError when the file holds no block
load_blocks_raises(lines) == parse_blocks(lines) = <<>>

\* delete_block(): the first index (0-based) at which raw_block matches, or -1
match_at(lines, raw_block, i) ==
    \A k \in 0..(Len(raw_block) - 1) : lines[i + k + 1] = raw_block[k + 1]

find_start(lines, raw_block) ==
    LET hits == {i \in 0..(Len(lines) - Len(raw_block)) : match_at(lines, raw_block, i)}
    IN  IF hits = {} THEN -1 ELSE CHOOSE i \in hits : \A j \in hits : i <= j

\* delete_block that rewrites the file also when the block is not found
delete_block_rewrites(lines, raw_block) ==
    LET start_idx == find_start(lines, raw_block)
        m == Len(raw_block)
        before == start_idx - 1 >= 0 /\ strip(lines[start_idx]) = SEPARATOR
        after == start_idx + m < Len(lines) /\ strip(lines[start_idx + m + 1]) = SEPARATOR
        del_start == IF before THEN start_idx - 1 ELSE start_idx
        del_end == IF ~before /\ after THEN start_idx + m + 1 ELSE start_idx + m
    IN  IF start_idx = -1 THEN write_lines(lines)
        ELSE write_lines(Slice(lines, 0, del_start) \o Slice(lines, del_end, Len(lines)))

\* delete_block(): the file it leaves
delete_block(lines, raw_block) ==
    LET start_idx == find_start(lines, raw_block)
        m == Len(raw_block)
        before == start_idx - 1 >= 0 /\ strip(lines[start_idx]) = SEPARATOR
        after == start_idx + m < Len(lines) /\ strip(lines[start_idx + m + 1]) = SEPARATOR
        del_start == IF before THEN start_idx - 1 ELSE start_idx
        del_end == IF ~before /\ after THEN start_idx + m + 1 ELSE start_idx + m
    IN  IF start_idx = -1 THEN lines
        ELSE write_lines(Slice(lines, 0, del_start) \o Slice(lines, del_end, Len(lines)))

----------------------------------------------------------------------------
(* Planning *)

MINUTES_PER_HOUR == 60
DEFAULT_MIN_GAP == 30

abs(x) == IF x < 0 THEN -x ELSE x

\* dt.strftime("%H:%M") of a minute of the day: <<hour, minute>>
strftime(t) == <<t \div MINUTES_PER_HOUR, t % MINUTES_PER_HOUR>>

\* the minute of the day a "%H:%M" string parses to (datetime.fromisoformat)
fromisoformat(slot) == slot[1] * MINUTES_PER_HOUR + slot[2]

\* "a" <= "b" for two zero-padded "%H:%M" strings
str_leq(a, b) == a[1] < b[1] \/ (a[1] = b[1] /\ a[2] <= b[2])

RECURSIVE insert_sorted(_, _)
insert_sorted(x, s) ==
    IF s = <<>> THEN <<x>>
    ELSE IF str_leq(x, Head(s)) THEN <<x>> \o s
         ELSE <<Head(s)>> \o insert_sorted(x, Tail(s))

\* sorted(dt.strftime("%H:%M") for dt in picks)
RECURSIVE sorted_slots(_)
sorted_slots(picks) ==
    IF picks = <<>> THEN <<>>
    ELSE insert_sorted(strftime(Head(picks)), sorted_slots(Tail(picks)))

\* the window of the day, in minutes of the day: START_HOUR:00 .. END_HOUR:59
window_start == START_HOUR * MINUTES_PER_HOUR
window_end == END_HOUR * MINUTES_PER_HOUR + (MINUTES_PER_HOUR - 1)

span_minutes == (window_end - window_start) + 1

max_slots(min_gap_minutes) == (span_minutes \div min_gap_minutes) + 1

\* the feasibility check with a bound that is one too high
plan_raises_late(min_gap_minutes) == SLOTS_PER_DAY > max_slots(min_gap_minutes) + 1

\* plan_slots_for_today() raises ValueError
plan_raises(min_gap_minutes) == SLOTS_PER_DAY > max_slots(min_gap_minutes)

\* keep_candidate with the gap enforced on later candidates only
keep_candidate_forward_only(c, t, min_gap_minutes) ==
    c < t \/ c - t >= min_gap_minutes

\* the candidates that stay after t was picked
keep_candidate(c, t, min_gap_minutes) == abs(c - t) >= min_gap_minutes

\* the while loop of plan_slots_for_today(): every list of picks some sequence
\* of random.randrange() values produces (candidates holds distinct instants,
\* so the list is modelled by the set of its elements)
RECURSIVE plan_loop(_, _, _)
plan_loop(candidates, picks, min_gap_minutes) ==
    IF candidates # {} /\ Len(picks) < SLOTS_PER_DAY
    THEN UNION {plan_loop({c \in candidates \ {t} : keep_candidate(c, t, min_gap_minutes)},
                          Append(picks, t), min_gap_minutes) : t \in candidates}
    ELSE {picks}

\* what plan_slots_for_today() returns
finish_plan(picks) == sorted_slots(picks)

\* plan_slots_for_today() when it does not raise: every list it can return
plan_slots_for_today(min_gap_minutes) ==
    {finish_plan(picks) :
        picks \in plan_loop({window_start + i : i \in 0..(span_minutes - 1)}, <<>>,
                            min_gap_minutes)}

----------------------------------------------------------------------------
(* State shared by the specifications *)

NoFile == <<>>          \* .post_state.json does not exist; <<st>> when it holds st
None == "None"
NoSlot == <<>>          \* find_due_slot() returned None

----------------------------------------------------------------------------
(* State helpers, the due slot and the audit file *)

MINUTES_PER_DAY == 1440

\* today_et() at the instant now
today_et(now) == now[1]

\* an instant <<day, minute>> as minutes since day 0
instant(day, minute) == day * MINUTES_PER_DAY + minute

\* load_state(): {} is the dict whose every get() returns its default; the
\* date None, which equals no date, is -1
EmptyDict == [date |-> -1, planned |-> <<>>, posted |-> <<>>, log |-> <<>>]

load_state == IF postState = NoFile THEN EmptyDict ELSE postState[1]

\* save_state(): the file it leaves
save_state(st) == <<st>>

\* ensure_plan() that plans in every run
needs_plan_always(st, now) == TRUE

\* ensure_plan() with the stored date as the only test
needs_plan_date_only(st, now) == st.date # today_et(now)

\* ensure_plan(): state.get("date") != t or not planned
needs_plan(st, now) == st.date # today_et(now) \/ st.planned = <<>>

\* the state ensure_plan() builds around a new plan, with an empty log
new_state_drops_log(st, now, planned) ==
    [date |-> today_et(now), planned |-> planned, posted |-> <<>>, log |-> <<>>]

\* the state ensure_plan() builds around a new plan, keeping posted
new_state_keeps_posted(st, now, planned) ==
    [date |-> today_et(now), planned |-> planned, posted |-> st.posted, log |-> st.log]

\* the state ensure_plan() builds around a new plan
new_state(st, now, planned) ==
    [date |-> today_et(now), planned |-> planned, posted |-> <<>>, log |-> st.log]

\* ensure_plan() when plan_slots_for_today() does not raise: every state it can
\* return (it has saved the state if and only if it planned)
ensure_plan(st, now) ==
    IF needs_plan(st, now)
    THEN {new_state(st, now, planned) : planned \in plan_slots_for_today(DEFAULT_MIN_GAP)}
    ELSE {st}

InSeq(x, s) == \E i \in 1..Len(s) : s[i] = x

\* find_due_slot() with a window that is open at its end
is_due_open_window(st, slot, now) ==
    /\ ~InSeq(slot, st.posted)
    /\ instant(st.date, fromisoformat(slot)) <= instant(now[1], now[2])
    /\ instant(now[1], now[2]) < instant(st.date, fromisoformat(slot)) + WINDOW_MIN

\* find_due_slot(): slot_dt <= now <= slot_dt + timedelta(minutes=WINDOW_MIN)
is_due(st, slot, now) ==
    /\ ~InSeq(slot, st.posted)
    /\ instant(st.date, fromisoformat(slot)) <= instant(now[1], now[2])
    /\ instant(now[1], now[2]) <= instant(st.date, fromisoformat(slot)) + WINDOW_MIN

\* find_due_slot() that returns the last slot of planned that is due
find_due_slot_last(st, now) ==
    LET hits == {i \in 1..Len(st.planned) : is_due(st, st.planned[i], now)}
    IN  IF hits = {} THEN NoSlot
        ELSE st.planned[CHOOSE i \in hits : \A j \in hits : j <= i]

\* find_due_slot(): the first slot of planned that is due, or None
find_due_slot(st, now) ==
    LET hits == {i \in 1..Len(st.planned) : is_due(st, st.planned[i], now)}
    IN  IF hits = {} THEN NoSlot
        ELSE st.planned[CHOOSE i \in hits : \A j \in hits : i <= j]

\* append_posted(): the entry added to posted_tweets.txt
append_posted(raw_block, status, tweet_id, now) ==
    Append(postedFile, [ts |-> now, status |-> status, id |-> tweet_id, raw |-> raw_block])

----------------------------------------------------------------------------
(* The state before any run *)

Hist0 ==
    [outcome |-> "none", replanned |-> FALSE, loaded |-> <<>>, tried |-> <<>>,
     arg |-> <<>>, idx |-> 0, file0 |-> <<>>, file1 |-> <<>>,
     gap |-> 0, picks |-> <<>>, plan |-> <<>>,
     runs |-> 0, saved |-> EmptyDict]

DEFAULT_MAX_TWEETS == 5
DEFAULT_SKIP_RECENT == 8
DEFAULT_MIN_AGE_HOURS == 36

Wt0 ==
    [runs |-> 0, outcome |-> "none", rc |-> -1, blocks |-> <<>>, idx |-> -1,
     lines |-> <<>>, created |-> <<>>, file0 |-> <<>>, state0 |-> NoFile]

\* weekly_thread.py before any run of it, with no thread to post
WeeklyIdle ==
    /\ threads = <<>>
    /\ threadState = NoFile
    /\ MAX_TWEETS = DEFAULT_MAX_TWEETS
    /\ wt = Wt0

\* self_quote.py before any run of it, with no row logged
QuoteIdle ==
    /\ rows = <<>>
    /\ SKIP_RECENT = DEFAULT_SKIP_RECENT
    /\ MIN_AGE_HOURS = DEFAULT_MIN_AGE_HOURS
    /\ pool = None

\* everything but the configuration, the content file and pc, before any run
Idle ==
    /\ postedFile = <<>>
    /\ postState = NoFile
    /\ clock = <<0, 0>>
    /\ blocks = <<>>
    /\ state = None
    /\ due = NoSlot
    /\ res = None
    /\ hist = Hist0
    /\ WeeklyIdle
    /\ QuoteIdle

----------------------------------------------------------------------------
(* SpecPlan: plan_slots_for_today() on its own, for every configuration of   *)
(* the bounds and every sequence of random picks                            *)

MaxSlotsPerDay == 3     \* SLOTS_PER_DAY is drawn from 0..MaxSlotsPerDay

\* the hours the window is drawn from; InitPlan draws windows of one hour
\* (START_HOUR = END_HOUR) and the empty window (END_HOUR < START_HOUR)
PlanHours == {22, 23}

GapChoices == {20, DEFAULT_MIN_GAP, 45}
\* WINDOW_MIN: a posting window of ten minutes
WindowChoices == {10}

InitPlan ==
    /\ SLOTS_PER_DAY \in 0..MaxSlotsPerDay
    /\ START_HOUR \in PlanHours
    /\ END_HOUR \in PlanHours
    /\ END_HOUR <= START_HOUR
    /\ WINDOW_MIN \in WindowChoices
    /\ tweets = <<>>
    /\ pc = "plan"
    /\ Idle

PlanReturns(min_gap_minutes) ==
    /\ pc = "plan"
    /\ ~plan_raises(min_gap_minutes)
    /\ \E picks \in plan_loop({window_start + i : i \in 0..(span_minutes - 1)}, <<>>,
                              min_gap_minutes) :
          hist' = [hist EXCEPT !.outcome = "planned", !.gap = min_gap_minutes,
                               !.picks = picks, !.plan = finish_plan(picks)]
    /\ pc' = "done"
    /\ UNCHANGED <<tweets, postedFile, postState, config, weekly, quote, clock, blocks, state, due, res>>

PlanRaises(min_gap_minutes) ==
    /\ pc = "plan"
    /\ plan_raises(min_gap_minutes)
    /\ hist' = [hist EXCEPT !.outcome = "ValueError", !.gap = min_gap_minutes]
    /\ pc' = "done"
    /\ UNCHANGED <<tweets, postedFile, postState, config, weekly, quote, clock, blocks, state, due, res>>

NextPlan ==
    \/ \E g \in GapChoices : PlanReturns(g)
    \/ \E g \in GapChoices : PlanRaises(g)

SpecPlan == InitPlan /\ [][NextPlan]_vars

----------------------------------------------------------------------------
(* SpecStore: load_blocks() and delete_block() on their own, for every      *)
(* content file of the bounds: the file is parsed, delete_block() is called *)
(* once (with the raw lines of a parsed block, or with raw lines that come  *)
(* from elsewhere), and then a second time with the same raw lines          *)

Files == SeqsUpTo(InputLines, MaxLines)

\* raw lines of a block that was not parsed from the current file
OutsideRaws == SeqsUpTo(InputLines \ {SEPARATOR}, MaxRawLen) \ {<<>>}

InitStore ==
    /\ tweets \in Files
    /\ SLOTS_PER_DAY = 1
    /\ START_HOUR = 23
    /\ END_HOUR = 23
    /\ WINDOW_MIN \in WindowChoices
    /\ pc = "load"
    /\ Idle

StoreFrame == UNCHANGED <<postedFile, postState, config, weekly, quote, clock, state, due, res>>

StoreLoad ==
    /\ pc = "load"
    /\ IF load_blocks_raises(tweets)
       THEN /\ pc' = "done"
            /\ hist' = [hist EXCEPT !.outcome = "ValueError"]
            /\ UNCHANGED blocks
       ELSE /\ pc' = "loaded"
            /\ blocks' = parse_blocks(tweets)
            /\ hist' = [hist EXCEPT !.loaded = parse_blocks(tweets)]
    /\ UNCHANGED tweets
    /\ StoreFrame

\* delete_block(TWEETS_FILE, blocks[idx]["raw"]); idx is 1-based here
StoreDeleteBlock(idx) ==
    /\ pc = "loaded"
    /\ tweets' = delete_block(tweets, blocks[idx].raw)
    /\ hist' = [hist EXCEPT !.outcome = "deleted", !.arg = blocks[idx].raw,
                            !.idx = idx, !.file0 = tweets]
    /\ pc' = "deleted"
    /\ UNCHANGED blocks
    /\ StoreFrame

\* delete_block(TWEETS_FILE, raw_block) for raw lines from elsewhere
StoreDeleteOutside(raw_block) ==
    /\ pc = "loaded"
    /\ tweets' = delete_block(tweets, raw_block)
    /\ hist' = [hist EXCEPT !.outcome = "deleted", !.arg = raw_block,
                            !.idx = 0, !.file0 = tweets]
    /\ pc' = "deleted"
    /\ UNCHANGED blocks
    /\ StoreFrame

\* the same call once more
StoreDeleteAgain ==
    /\ pc = "deleted"
    /\ tweets' = delete_block(tweets, hist.arg)
    /\ hist' = [hist EXCEPT !.outcome = "deleted twice", !.file1 = tweets]
    /\ pc' = "done"
    /\ UNCHANGED blocks
    /\ StoreFrame

NextStore ==
    \/ StoreLoad
    \/ \E idx \in 1..Len(blocks) : StoreDeleteBlock(idx)
    \/ \E raw_block \in OutsideRaws : StoreDeleteOutside(raw_block)
    \/ StoreDeleteAgain

SpecStore == InitStore /\ [][NextStore]_vars

----------------------------------------------------------------------------
(* weekly_thread.py: threads.txt, its blocks and the cursor *)

MaxThreadLines == 5     \* most lines in the threads.txt drawn by InitWeekly
MaxWeeklyRuns == 2      \* runs of weekly_thread in a behaviour

\* the line terminator, as a token of a text
NL == "\n"

\* a line of 281 characters, and its first 280 characters
LONG_LINE == "B..(281)"
CUT_LINE == "B..(280)"

\* ln[:280]
first_280(ln) == IF ln = LONG_LINE THEN CUT_LINE ELSE ln

\* the lines threads.txt is drawn from
ThreadLines == {"A", LONG_LINE, " ", SEPARATOR, PADDED_SEPARATOR}

\* "\n".join(lines), as tokens
RECURSIVE join_lines(_)
join_lines(lines) ==
    IF lines = <<>> THEN <<>>
    ELSE IF Len(lines) = 1 THEN <<lines[1]>>
         ELSE <<lines[1], NL>> \o join_lines(Tail(lines))

\* raw.split("\n---\n"): the chunks between the occurrences of the separator
\* substring, found from the left and not overlapping
RECURSIVE split_text(_, _, _)
split_text(text, chunk, acc) ==
    IF text = <<>> THEN Append(acc, chunk)
    ELSE IF Len(text) >= 3 /\ SubSeq(text, 1, 3) = <<NL, SEPARATOR, NL>>
         THEN split_text(SubSeq(text, 4, Len(text)), <<>>, Append(acc, chunk))
         ELSE split_text(Tail(text), Append(chunk, Head(text)), acc)

\* [ln.strip() for ln in chunk.splitlines() if ln.strip()]
RECURSIVE chunk_lines(_)
chunk_lines(chunk) ==
    IF chunk = <<>> THEN <<>>
    ELSE IF Head(chunk) # NL /\ strip(Head(chunk)) # ""
         THEN <<strip(Head(chunk))>> \o chunk_lines(Tail(chunk))
         ELSE chunk_lines(Tail(chunk))

\* [ln[:280] for ln in lines][:MAX_TWEETS]
cap_lines(lines) ==
    [i \in 1..(IF Len(lines) < MAX_TWEETS THEN Len(lines) ELSE MAX_TWEETS) |->
        first_280(lines[i])]

RECURSIVE collect_blocks(_)
collect_blocks(chunks) ==
    IF chunks = <<>> THEN <<>>
    ELSE IF chunk_lines(Head(chunks)) # <<>>
         THEN <<cap_lines(chunk_lines(Head(chunks)))>> \o collect_blocks(Tail(chunks))
         ELSE collect_blocks(Tail(chunks))

\* weekly_thread.load_blocks() without its final check
thread_blocks(text) == collect_blocks(split_text(text, <<>>, <<>>))

\* weekly_thread.load_blocks() raises ValueError
thread_blocks_raises(text) == thread_blocks(text) = <<>>

RECURSIVE join_pieces(_)
join_pieces(pieces) ==
    IF pieces = <<>> THEN <<>>
    ELSE IF Len(pieces) = 1 THEN pieces[1]
         ELSE pieces[1] \o <<NL, SEPARATOR, NL>> \o join_pieces(Tail(pieces))

IsNonEmpty(b) == b # <<>>

\* write_blocks(): the text it writes
write_blocks(bs) ==
    LET kept == SelectSeq(bs, IsNonEmpty)
        pieces == [i \in 1..Len(kept) |-> join_lines(kept[i])]
    IN  IF pieces = <<>> THEN <<>> ELSE join_pieces(pieces) \o <<NL>>

\* weekly_thread.load_state()
thread_state == IF threadState = NoFile THEN [idx |-> -1] ELSE threadState[1]

\* next_index()
next_index(n, st) == (st.idx + 1) % n

\* post_thread() that reports a thread as posted once its first tweet is created
post_thread_first_only(lines, fail_at) ==
    IF lines = <<>> THEN [ok |-> FALSE, created |-> <<>>]
    ELSE IF fail_at = 0 THEN [ok |-> TRUE, created |-> lines]
         ELSE [ok |-> fail_at > 1, created |-> SubSeq(lines, 1, fail_at - 1)]

\* post_thread(): create_tweet() raises at the tweet number fail_at (1-based),
\* or at none when fail_at = 0; the tweets created, and the value returned
post_thread(lines, fail_at) ==
    IF lines = <<>> THEN [ok |-> FALSE, created |-> <<>>]
    ELSE IF fail_at = 0 THEN [ok |-> TRUE, created |-> lines]
         ELSE [ok |-> FALSE, created |-> SubSeq(lines, 1, fail_at - 1)]

\* state["idx"] = (idx - 1) % len(remaining) if remaining else -1
saved_index(idx, remaining) ==
    IF remaining # <<>> THEN (idx - 1) % Len(remaining) ELSE -1

----------------------------------------------------------------------------
(* self_quote.py: eligible_pool(). A row is [id, et]: the value of its "id"  *)
(* key as str() gives it, and its "et" timestamp as an instant, or NoTime    *)
(* when dateutil cannot parse it (or the key is missing).                    *)

MaxRows == 3            \* most rows in posted.jsonl
MaxSkip == 2            \* SKIP_RECENT is drawn from 0..MaxSkip

SECONDS_PER_MINUTE == 60
SECONDS_PER_HOUR == 3600

NoTime == <<>>

\* str.isdigit() on the ids of the model
isdigit(id) == id \in {"1001", "1002"}

\* datetime.timestamp() of an instant
timestamp(t) == instant(t[1], t[2]) * SECONDS_PER_MINUTE

\* Python's rows[:stop]
slice_to(rs, stop) ==
    LET n == Len(rs)
        e == IF stop < 0 THEN (IF n + stop < 0 THEN 0 ELSE n + stop)
             ELSE (IF stop > n THEN n ELSE stop)
    IN  SubSeq(rs, 1, e)

\* the cutoff of eligible_pool() at the instant now
cutoff(now) == timestamp(now) - (MIN_AGE_HOURS * SECONDS_PER_HOUR)

\* the filter of eligible_pool() on the older rows
is_eligible(r, now) ==
    /\ isdigit(r.id)
    /\ \/ MIN_AGE_HOURS <= 0
       \/ r.et = NoTime
       \/ timestamp(r.et) <= cutoff(now)

RECURSIVE filter_rows(_, _)
filter_rows(rs, now) ==
    IF rs = <<>> THEN <<>>
    ELSE IF is_eligible(Head(rs), now)
         THEN <<Head(rs)>> \o filter_rows(Tail(rs), now)
         ELSE filter_rows(Tail(rs), now)

\* eligible_pool(rows) at the instant now
eligible_pool(rs, now) ==
    IF Len(rs) <= SKIP_RECENT THEN <<>>
    ELSE filter_rows(slice_to(rs, 0 - SKIP_RECENT), now)

----------------------------------------------------------------------------
(* SpecQuote: eligible_pool() on its own, for every log of the bounds       *)

\* the instant of the run: day 2, 00:00; with MIN_AGE_HOURS = 36 the cutoff
\* is day 0, 12:00
QuoteNow == <<2, 0>>

RowIds == {"1001", "x1"}
RowTimes == {<<0, 720>>, <<0, 721>>, NoTime}
RowValues == {[id |-> i, et |-> t] : i \in RowIds, t \in RowTimes}
AgeChoices == {0, DEFAULT_MIN_AGE_HOURS}

InitQuote ==
    /\ rows \in SeqsUpTo(RowValues, MaxRows)
    /\ SKIP_RECENT \in 0..MaxSkip
    /\ MIN_AGE_HOURS \in AgeChoices
    /\ pool = None
    /\ tweets = <<>>
    /\ SLOTS_PER_DAY = 1
    /\ START_HOUR = 23
    /\ END_HOUR = 23
    /\ WINDOW_MIN \in WindowChoices
    /\ pc = "idle"
    /\ postedFile = <<>>
    /\ postState = NoFile
    /\ clock = QuoteNow
    /\ blocks = <<>>
    /\ state = None
    /\ due = NoSlot
    /\ res = None
    /\ hist = Hist0
    /\ WeeklyIdle

\* main(): pool = eligible_pool(rows)
EligiblePool ==
    /\ pool = None
    /\ pool' = eligible_pool(rows, clock)
    /\ UNCHANGED <<tweets, postedFile, postState, config, clock, pc, blocks, state,
                   due, res, hist, weekly, rows, SKIP_RECENT, MIN_AGE_HOURS>>

NextQuote == EligiblePool

SpecQuote == InitQuote /\ [][NextQuote]_vars

----------------------------------------------------------------------------
(* Properties of the planner (SpecPlan) *)

\* C1: whenever the feasibility check passes (for a window that is not empty),
\* plan_slots_for_today returns exactly SLOTS_PER_DAY slots, whatever the
\* random picks
C1_PlanReturnsSlotCount ==
    (hist.outcome = "planned" /\ START_HOUR <= END_HOUR) =>
        Len(hist.plan) = SLOTS_PER_DAY

\* C2: every list plan_slots_for_today returns holds distinct times inside
\* [START_HOUR:00, END_HOUR:59], pairwise at least min_gap_minutes apart, in
\* ascending order, whatever the order of the picks
C2_PlanWellFormed ==
    hist.outcome = "planned" =>
        /\ \A i \in 1..Len(hist.plan) :
              /\ str_leq(<<START_HOUR, 0>>, hist.plan[i])
              /\ str_leq(hist.plan[i], <<END_HOUR, MINUTES_PER_HOUR - 1>>)
              /\ hist.plan[i][2] \in 0..(MINUTES_PER_HOUR - 1)
        /\ \A i, j \in 1..Len(hist.plan) :
              i < j =>
                 /\ hist.plan[i] # hist.plan[j]
                 /\ str_leq(hist.plan[i], hist.plan[j])
                 /\ fromisoformat(hist.plan[j]) - fromisoformat(hist.plan[i]) >= hist.gap

\* a plan of several slots that were picked in descending order
C2_Witness ==
    /\ hist.outcome = "planned"
    /\ Len(hist.picks) >= 2
    /\ hist.picks[1] > hist.picks[2]
    /\ Len(hist.plan) = Len(hist.picks)

----------------------------------------------------------------------------
(* Properties of the block store (SpecStore) *)

Texts(bs) == [i \in 1..Len(bs) |-> bs[i].text]

\* del bs[idx] that removes nothing
RemoveAt_keeps(bs, idx) == bs

\* Python's del bs[idx] for a 1-based idx
RemoveAt(bs, idx) == SubSeq(bs, 1, idx - 1) \o SubSeq(bs, idx + 1, Len(bs))

\* C6: after delete_block for a block parsed from the file, re-parsing the
\* file yields all the other blocks, unchanged and in the same order
C6_ReparseKeepsOtherBlocks ==
    (pc = "deleted" /\ hist.idx > 0) =>
        Texts(parse_blocks(tweets)) = Texts(RemoveAt(hist.loaded, hist.idx))

\* C7: after one successful deletion of raw_block, a second delete_block with
\* the same raw_block leaves the file unchanged
C7_SecondDeleteIsNoOp ==
    (hist.outcome = "deleted twice" /\ hist.idx > 0
        /\ find_start(hist.file0, hist.arg) # -1) =>
        tweets = hist.file1

\* C8: when raw_block matches no contiguous run of lines of the file,
\* delete_block returns normally and the file is exactly what it was
C8_NotFoundLeavesFile ==
    /\ (hist.outcome = "deleted" /\ find_start(hist.file0, hist.arg) = -1) =>
          (pc = "deleted" /\ tweets = hist.file0)
    /\ (hist.outcome = "deleted twice" /\ find_start(hist.file1, hist.arg) = -1) =>
          (pc = "done" /\ tweets = hist.file1)

\* delete_block did not find its block in a file that a rewrite would change
C8_Witness ==
    /\ hist.outcome = "deleted"
    /\ find_start(hist.file0, hist.arg) = -1
    /\ write_lines(hist.file0) # hist.file0
    /\ tweets = hist.file0

----------------------------------------------------------------------------
(* Spec: invocations of main(), one after the other, as the external        *)
(* trigger runs them. An invocation reads the clock once; the clock does    *)
(* not go back between invocations.                                         *)

MaxRuns == 2            \* invocations in a behaviour
MaxRunBlocks == 3       \* most blocks in a content file drawn by Init

\* the minutes of the day at which the trigger fires: 00:05 and 23:55
ClockMinutes == {5, 1435}
\* two calendar days in a row: a stored date is today's or the day before's
Days == {0, 1}
Times == {<<d, m>> : d \in Days, m \in ClockMinutes}

RunSlots == {0, 1, 4}
RunHours == {23}
TweetIds == {"1001"}

\* the blocks a content file is made of; the lines of one occur inside another
RunBlocks == {<<"A">>, <<"B">>, <<"B", "A">>}

RECURSIVE JoinBlocks(_)
JoinBlocks(bs) ==
    IF Len(bs) = 0 THEN <<>>
    ELSE IF Len(bs) = 1 THEN bs[1]
         ELSE bs[1] \o <<SEPARATOR>> \o JoinBlocks(Tail(bs))

\* the orders in which the blocks stand in a content file
RunOrders ==
    {<< <<"B", "A">>, <<"B">>, <<"A">> >>, << <<"A">>, <<"B">>, <<"B", "A">> >>}

\* bs is order o with some of its blocks left out
IsSubOrder(bs, o) ==
    \E f \in [1..Len(bs) -> 1..Len(o)] :
        /\ \A i, j \in 1..Len(bs) : i < j => f[i] < f[j]
        /\ \A i \in 1..Len(bs) : o[f[i]] = bs[i]

\* content files: one to MaxRunBlocks blocks, joined by separators
RunFiles ==
    {JoinBlocks(bs) : bs \in {b \in SeqsUpTo(RunBlocks, MaxRunBlocks) :
                                 b # <<>> /\ \E o \in RunOrders : IsSubOrder(b, o)}}

Init ==
    /\ tweets \in RunFiles
    /\ SLOTS_PER_DAY \in RunSlots
    /\ START_HOUR \in RunHours
    /\ END_HOUR = START_HOUR
    /\ WINDOW_MIN \in WindowChoices
    /\ pc = "idle"
    /\ Idle

\* an invocation starts at the instant now
Starts(now) ==
    /\ pc = "idle"
    /\ hist.runs < MaxRuns
    /\ instant(clock[1], clock[2]) <= instant(now[1], now[2])
    /\ clock' = now

\* what the process leaves when it exits
Exits ==
    /\ pc' = "idle"
    /\ blocks' = <<>>
    /\ state' = None
    /\ due' = NoSlot
    /\ res' = None

RunHist(outcome, replanned, loaded, saved) ==
    [Hist0 EXCEPT !.outcome = outcome, !.replanned = replanned, !.loaded = loaded,
                  !.saved = saved, !.runs = hist.runs + 1]

\* main(): load_blocks() raises ValueError
MainNoBlocks(now) ==
    /\ Starts(now)
    /\ load_blocks_raises(tweets)
    /\ hist' = RunHist("no blocks", FALSE, <<>>, load_state)
    /\ Exits
    /\ UNCHANGED <<tweets, postedFile, postState, config, weekly, quote>>

\* main(): ensure_plan() calls plan_slots_for_today(), which raises ValueError
MainPlanRaises(now) ==
    /\ Starts(now)
    /\ ~load_blocks_raises(tweets)
    /\ needs_plan(load_state, now)
    /\ plan_raises(DEFAULT_MIN_GAP)
    /\ hist' = RunHist("plan raised", FALSE, parse_blocks(tweets), load_state)
    /\ Exits
    /\ UNCHANGED <<tweets, postedFile, postState, config, weekly, quote>>

\* main(): the plan is ensured and no slot is due
MainNoSlotDue(now) ==
    /\ Starts(now)
    /\ ~load_blocks_raises(tweets)
    /\ ~(needs_plan(load_state, now) /\ plan_raises(DEFAULT_MIN_GAP))
    /\ \E st \in ensure_plan(load_state, now) :
          /\ find_due_slot(st, now) = NoSlot
          /\ postState' = IF needs_plan(load_state, now) THEN save_state(st) ELSE postState
          /\ hist' = RunHist("no slot due", needs_plan(load_state, now),
                             parse_blocks(tweets), st)
    /\ Exits
    /\ UNCHANGED <<tweets, postedFile, config, weekly, quote>>

\* main(): the plan is ensured, a slot is due and post_random_block() is entered
MainSlotDue(now) ==
    /\ Starts(now)
    /\ ~load_blocks_raises(tweets)
    /\ ~(needs_plan(load_state, now) /\ plan_raises(DEFAULT_MIN_GAP))
    /\ \E st \in ensure_plan(load_state, now) :
          /\ find_due_slot(st, now) # NoSlot
          /\ postState' = IF needs_plan(load_state, now) THEN save_state(st) ELSE postState
          /\ state' = st
          /\ due' = find_due_slot(st, now)
          /\ hist' = RunHist("posting", needs_plan(load_state, now),
                             parse_blocks(tweets), st)
    /\ blocks' = parse_blocks(tweets)
    /\ pc' = "posting"
    /\ res' = None
    /\ UNCHANGED <<tweets, postedFile, config, weekly, quote>>

Tried(idx, outcome) ==
    [hist EXCEPT !.tried = Append(@, [text |-> blocks[idx].text, raw |-> blocks[idx].raw,
                                      res |-> outcome])]

\* post_random_block(): post_to_x() answers "DUPLICATE" for blocks[idx]
PostDuplicate(idx) ==
    /\ pc = "posting"
    /\ idx \in 1..Len(blocks)
    /\ res' = "DUPLICATE"
    /\ postedFile' = append_posted(blocks[idx].raw, "DUPLICATE", None, clock)
    /\ tweets' = delete_block(tweets, blocks[idx].raw)
    /\ blocks' = RemoveAt(blocks, idx)
    /\ hist' = Tried(idx, "DUPLICATE")
    /\ UNCHANGED <<postState, config, weekly, quote, clock, pc, state, due>>

\* post_random_block(): post_to_x() returns a tweet id for blocks[idx]; the
\* state is saved with the log entry, and main() saves it again with the slot
PostSuccess(idx, tweet_id) ==
    /\ pc = "posting"
    /\ idx \in 1..Len(blocks)
    /\ postedFile' = append_posted(blocks[idx].raw, "POSTED", tweet_id, clock)
    /\ tweets' = delete_block(tweets, blocks[idx].raw)
    /\ postState' = save_state([state EXCEPT
                        !.log = Append(@, [time |-> clock, text |-> blocks[idx].text,
                                           id |-> tweet_id]),
                        !.posted = Append(@, due)])
    /\ hist' = [Tried(idx, tweet_id) EXCEPT !.outcome = "posted"]
    /\ Exits
    /\ UNCHANGED <<config, weekly, quote, clock>>

\* post_random_block(): post_to_x() returns None for blocks[idx]
PostFailure(idx) ==
    /\ pc = "posting"
    /\ idx \in 1..Len(blocks)
    /\ hist' = [Tried(idx, None) EXCEPT !.outcome = "failed"]
    /\ Exits
    /\ UNCHANGED <<tweets, postedFile, postState, config, weekly, quote, clock>>

\* post_random_block(): no block is left
PostExhausted ==
    /\ pc = "posting"
    /\ blocks = <<>>
    /\ hist' = [hist EXCEPT !.outcome = "exhausted"]
    /\ Exits
    /\ UNCHANGED <<tweets, postedFile, postState, config, weekly, quote, clock>>

Next ==
    \/ \E now \in Times : MainNoBlocks(now)
    \/ \E now \in Times : MainPlanRaises(now)
    \/ \E now \in Times : MainNoSlotDue(now)
    \/ \E now \in Times : MainSlotDue(now)
    \/ \E idx \in 1..Len(blocks) : PostDuplicate(idx)
    \/ \E idx \in 1..Len(blocks), tweet_id \in TweetIds : PostSuccess(idx, tweet_id)
    \/ \E idx \in 1..Len(blocks) : PostFailure(idx)
    \/ PostExhausted

Spec == Init /\ [][Next]_vars

\* one pass of the while loop of post_random_block(), or its end
PostStep ==
    \/ \E idx \in 1..Len(blocks) : PostDuplicate(idx)
    \/ \E idx \in 1..Len(blocks), tweet_id \in TweetIds : PostSuccess(idx, tweet_id)
    \/ \E idx \in 1..Len(blocks) : PostFailure(idx)
    \/ PostExhausted

\* Spec with the progress of a started invocation: the process runs on, and
\* post_to_x() answers (an answer that never comes blocks the run for good;
\* the trigger of the invocations is under no obligation)
SpecLive == Spec /\ WF_vars(PostStep)

----------------------------------------------------------------------------
(* SpecDue: invocations of main() on one day, with a posting window that is *)
(* longer than the gap between two slots, so that several slots of the plan *)
(* can be due at once. The day's plan is one an earlier run of the day left *)
(* in the state file (the plans of plan_slots_for_today() on the quarter    *)
(* hours).                                                                  *)

\* WINDOW_MIN when the environment does not set it
DEFAULT_WINDOW_MIN == 40

\* the minutes of the hour of the stored plans
PlanMinutes == {0, 15, 30, 45}

\* 23:35 and 23:50 of day 0
DueTimes == {<<0, 1415>>, <<0, 1430>>}

DueSlots == {2, 4}

OnQuarterHours(planned) ==
    \A i \in 1..Len(planned) : planned[i][2] \in PlanMinutes

InitDue ==
    /\ tweets \in RunFiles
    /\ SLOTS_PER_DAY \in DueSlots
    /\ START_HOUR \in RunHours
    /\ END_HOUR = START_HOUR
    /\ WINDOW_MIN = DEFAULT_WINDOW_MIN
    /\ pc = "idle"
    /\ postedFile = <<>>
    /\ IF plan_raises(DEFAULT_MIN_GAP)
       THEN postState = NoFile
       ELSE \E planned \in plan_slots_for_today(DEFAULT_MIN_GAP) :
               /\ OnQuarterHours(planned)
               /\ postState = save_state(new_state(EmptyDict, <<0, 0>>, planned))
    /\ clock = <<0, 0>>
    /\ blocks = <<>>
    /\ state = None
    /\ due = NoSlot
    /\ res = None
    /\ hist = Hist0
    /\ WeeklyIdle
    /\ QuoteIdle

NextDue ==
    \/ \E now \in DueTimes : MainNoBlocks(now)
    \/ \E now \in DueTimes : MainPlanRaises(now)
    \/ \E now \in DueTimes : MainNoSlotDue(now)
    \/ \E now \in DueTimes : MainSlotDue(now)
    \/ \E idx \in 1..Len(blocks) : PostDuplicate(idx)
    \/ \E idx \in 1..Len(blocks), tweet_id \in TweetIds : PostSuccess(idx, tweet_id)
    \/ \E idx \in 1..Len(blocks) : PostFailure(idx)
    \/ PostExhausted

SpecDue == InitDue /\ [][NextDue]_vars

----------------------------------------------------------------------------
(* SpecWeekly: runs of weekly_thread.main(), one after the other, on every   *)
(* threads.txt of the bounds; nothing else writes threads.txt or the state  *)
(* file between the runs                                                    *)

\* the texts of threads.txt: lines joined by line terminators, with or
\* without a terminator after the last line
ThreadTexts ==
    {join_lines(lines) \o tail :
        lines \in SeqsUpTo(ThreadLines, MaxThreadLines), tail \in {<<>>, <<NL>>}}

\* MAX_TWEETS: one tweet per thread, or the default
TweetCaps == {1, DEFAULT_MAX_TWEETS}

\* the state files an earlier run can have left
ThreadStates == {NoFile, <<[idx |-> 0]>>, <<[idx |-> 1]>>}

InitWeekly ==
    /\ threads \in ThreadTexts
    /\ threadState \in ThreadStates
    /\ MAX_TWEETS \in TweetCaps
    /\ wt = Wt0
    /\ tweets = <<>>
    /\ SLOTS_PER_DAY = 1
    /\ START_HOUR = 23
    /\ END_HOUR = 23
    /\ WINDOW_MIN \in WindowChoices
    /\ pc = "idle"
    /\ postedFile = <<>>
    /\ postState = NoFile
    /\ clock = <<0, 0>>
    /\ blocks = <<>>
    /\ state = None
    /\ due = NoSlot
    /\ res = None
    /\ hist = Hist0
    /\ QuoteIdle

WeeklyFrame ==
    UNCHANGED <<tweets, postedFile, postState, config, clock, pc, blocks, state,
                due, res, hist, MAX_TWEETS, quote>>

\* weekly_thread.main(): load_blocks() raises ValueError
WeeklyNoBlocks ==
    /\ wt.runs < MaxWeeklyRuns
    /\ thread_blocks_raises(threads)
    /\ wt' = [Wt0 EXCEPT !.runs = wt.runs + 1, !.outcome = "ValueError",
                         !.file0 = threads, !.state0 = threadState]
    /\ UNCHANGED <<threads, threadState>>
    /\ WeeklyFrame

\* weekly_thread.main(): a block is selected and post_thread() is called;
\* create_tweet() raises at the tweet number fail_at, or at none (fail_at = 0)
WeeklyMain(fail_at) ==
    /\ wt.runs < MaxWeeklyRuns
    /\ ~thread_blocks_raises(threads)
    /\ LET bs == thread_blocks(threads)
           st == thread_state
           idx == next_index(Len(bs), st)
           lines == bs[idx + 1]
           posted == post_thread(lines, fail_at)
           remaining == RemoveAt(bs, idx + 1)
       IN  /\ fail_at \in 0..Len(lines)
           /\ IF posted.ok
              THEN /\ threads' = write_blocks(remaining)
                   /\ threadState' = <<[st EXCEPT !.idx = saved_index(idx, remaining)]>>
              ELSE UNCHANGED <<threads, threadState>>
           /\ wt' = [runs |-> wt.runs + 1,
                     outcome |-> IF posted.ok THEN "posted" ELSE "failed",
                     rc |-> IF posted.ok THEN 0 ELSE 1,
                     blocks |-> bs, idx |-> idx, lines |-> lines,
                     created |-> posted.created,
                     file0 |-> threads, state0 |-> threadState]
    /\ WeeklyFrame

NextWeekly ==
    \/ WeeklyNoBlocks
    \/ \E fail_at \in 0..MaxThreadLines : WeeklyMain(fail_at)

SpecWeekly == InitWeekly /\ [][NextWeekly]_vars

----------------------------------------------------------------------------
(* Properties of the invocations (Spec) *)

\* this step is the first of an invocation
RunStarts == pc = "idle" /\ hist'.runs = hist.runs + 1

\* this step is the first of an invocation, and ensure_plan() returns in it
PlanStepReturns == RunStarts /\ hist'.outcome \notin {"no blocks", "plan raised"}

\* C3: when SLOTS_PER_DAY exceeds what the window supports at the spacing, the
\* planning of a run fails and the run ends with the state file (and the other
\* files) exactly as they were
C3_InfeasiblePlanWritesNothing ==
    [][(/\ RunStarts
        /\ ~load_blocks_raises(tweets)
        /\ needs_plan(load_state, clock')
        /\ SLOTS_PER_DAY > (span_minutes \div DEFAULT_MIN_GAP) + 1)
       => (/\ hist'.outcome = "plan raised"
           /\ pc' = "idle"
           /\ postState' = postState
           /\ tweets' = tweets
           /\ postedFile' = postedFile)]_vars

\* a second run in a row failed in planning and no state file was written
C3_Witness ==
    /\ hist.outcome = "plan raised"
    /\ hist.runs = 2
    /\ SLOTS_PER_DAY > (span_minutes \div DEFAULT_MIN_GAP) + 1
    /\ postState = NoFile

\* C4: ensure_plan generates a plan if and only if the stored date is not
\* today's or no plan is stored, and no step of a run on the day of a stored
\* non-empty plan changes that plan's date or slots
C4_PlansOncePerDay ==
    [][/\ PlanStepReturns =>
             (hist'.replanned <=>
                 (\/ postState = NoFile
                  \/ load_state.date # clock'[1]
                  \/ load_state.planned = <<>>))
       /\ (/\ postState # NoFile
           /\ load_state.date = clock'[1]
           /\ load_state.planned # <<>>)
          => (/\ postState' # NoFile
              /\ postState'[1].date = postState[1].date
              /\ postState'[1].planned = postState[1].planned)]_vars

\* the second run of a day found the plan of the first one and kept it
C4_Witness ==
    /\ hist.runs = 2
    /\ hist.outcome \in {"no slot due", "posted", "failed"}
    /\ ~hist.replanned
    /\ postState # NoFile
    /\ postState[1].planned # <<>>

\* C5: from a stored state of another day, the planning step persists a state
\* with today's date, a plan of today's window and an empty posted list (the
\* log is kept), and the due slot is found in that state alone
C5_StaleStateIsReplaced ==
    [][(/\ PlanStepReturns
        /\ postState # NoFile
        /\ load_state.date # clock'[1])
       => (/\ hist'.replanned
           /\ hist'.saved.date = clock'[1]
           /\ hist'.saved.posted = <<>>
           /\ hist'.saved.log = postState[1].log
           /\ Len(hist'.saved.planned) <= SLOTS_PER_DAY
           /\ \A i \in 1..Len(hist'.saved.planned) :
                 /\ str_leq(<<START_HOUR, 0>>, hist'.saved.planned[i])
                 /\ str_leq(hist'.saved.planned[i], <<END_HOUR, MINUTES_PER_HOUR - 1>>)
           /\ postState' = save_state(hist'.saved)
           /\ due' = find_due_slot([date |-> clock'[1], planned |-> hist'.saved.planned,
                                    posted |-> <<>>, log |-> <<>>], clock'))]_vars

\* a run replaced the state of the day before, in which a slot had been posted
C5_Witness ==
    /\ hist.runs = 2
    /\ hist.replanned
    /\ hist.outcome = "no slot due"
    /\ postState # NoFile
    /\ postState[1].date = 1
    /\ postState[1].posted = <<>>
    /\ postState[1].planned # <<>>
    /\ Len(postState[1].log) = 1
    /\ postState[1].log[1].time[1] = 0

\* the blocks of the run that post_to_x() was called for
TriedRaws == {hist.tried[i].raw : i \in 1..Len(hist.tried)}

IsUntried(b) == b.raw \notin TriedRaws

\* C9: after a run that ends in a successful post, the blocks rejected as
\* duplicates and the posted block are gone from the content file and every
\* other block is still in it
C9_TriedBlocksRemovedOthersKept ==
    hist.outcome = "posted" =>
        Texts(parse_blocks(tweets)) = Texts(SelectSeq(hist.loaded, IsUntried))

\* C9, the state file: the due slot is added to posted and the log gains
\* exactly one entry, with the text of the posted block
C9_SlotPostedAndLogged ==
    hist.outcome = "posted" =>
        /\ postState # NoFile
        /\ Len(postState[1].posted) = Len(hist.saved.posted) + 1
        /\ SubSeq(postState[1].posted, 1, Len(hist.saved.posted)) = hist.saved.posted
        /\ is_due(hist.saved, postState[1].posted[Len(postState[1].posted)], clock)
        /\ InSeq(postState[1].posted[Len(postState[1].posted)], postState[1].planned)
        /\ Len(postState[1].log) = Len(hist.saved.log) + 1
        /\ SubSeq(postState[1].log, 1, Len(hist.saved.log)) = hist.saved.log
        /\ postState[1].log[Len(postState[1].log)].text = hist.tried[Len(hist.tried)].text
        /\ hist.tried[Len(hist.tried)].res \in TweetIds

\* C10: after a run whose submission failed otherwise than as a duplicate, the
\* block that failed is still in the content file
C10_FailedBlockStays ==
    hist.outcome = "failed" =>
        InSeq(hist.tried[Len(hist.tried)].text, Texts(parse_blocks(tweets)))

\* C10, the state file: the failure is the last attempt of the run, the
\* persisted state is what the planning step left, and the slot is still due
C10_FailureLeavesState ==
    hist.outcome = "failed" =>
        /\ hist.tried[Len(hist.tried)].res = None
        /\ \A i \in 1..(Len(hist.tried) - 1) : hist.tried[i].res = "DUPLICATE"
        /\ postState = save_state(hist.saved)
        /\ find_due_slot(load_state, clock) # NoSlot

----------------------------------------------------------------------------
(* Properties of the invocations (Spec): runs without a due slot, the       *)
(* posting window, and what the state file keeps                            *)

\* the stored plan is a plan of the day of the instant now
PlanIsOfDay(now) ==
    postState # NoFile /\ load_state.date = now[1] /\ load_state.planned # <<>>

\* the instant now lies in [slot, slot + WINDOW_MIN] of the day date
InWindow(date, slot, now) ==
    /\ instant(date, slot[1] * MINUTES_PER_HOUR + slot[2]) <= instant(now[1], now[2])
    /\ instant(now[1], now[2]) <=
          instant(date, slot[1] * MINUTES_PER_HOUR + slot[2]) + WINDOW_MIN

\* C11 (as stated): a run in which no slot is due attempts no submission and
\* leaves the content file and the persisted state exactly as they were
C11_NoSlotDueRunMutatesNothing ==
    [][(RunStarts /\ hist'.outcome = "no slot due" /\ SLOTS_PER_DAY >= 1)
       => (/\ pc' = "idle"
           /\ tweets' = tweets
           /\ postedFile' = postedFile
           /\ postState' = postState)]_vars

\* C11 (amended): a run in which no slot is due attempts no submission and
\* leaves the content file and the audit file as they were; it leaves the
\* persisted state as it was when the stored plan is today's, and otherwise
\* persists today's fresh plan with an empty posted list and the stored log
C11_NoSlotDueRunOnlyPlans ==
    [][/\ (RunStarts /\ hist'.outcome = "no slot due")
          => (/\ pc' = "idle"
              /\ hist'.tried = <<>>
              /\ tweets' = tweets
              /\ postedFile' = postedFile
              /\ IF PlanIsOfDay(clock')
                 THEN postState' = postState
                 ELSE /\ postState' # NoFile
                      /\ postState'[1].date = clock'[1]
                      /\ postState'[1].posted = <<>>
                      /\ postState'[1].log = load_state.log
              /\ \A i \in 1..Len(postState'[1].planned) :
                    \/ InSeq(postState'[1].planned[i], postState'[1].posted)
                    \/ ~InWindow(clock'[1], postState'[1].planned[i], clock'))
       /\ (RunStarts /\ hist'.outcome = "posting")
          => \E i \in 1..Len(postState'[1].planned) :
                /\ ~InSeq(postState'[1].planned[i], postState'[1].posted)
                /\ InWindow(postState'[1].date, postState'[1].planned[i], clock')]_vars

\* the second run of a day found no slot due and left the stored plan, in
\* which a slot had been posted, as it was
C11_Witness ==
    /\ hist.runs = 2
    /\ hist.outcome = "no slot due"
    /\ ~hist.replanned
    /\ postState # NoFile
    /\ postState[1].posted # <<>>
    /\ postState[1].date = clock[1]

\* C13: the persisted posted list is a subset of the persisted planned list;
\* while the stored date stays the same the posted list loses no element; and
\* every step keeps the log entries there are, in place, also a step that
\* plans a new day
C13_PostedAndLogOnlyGrow ==
    [][/\ \A i \in 1..Len(load_state'.posted) :
             InSeq(load_state'.posted[i], load_state'.planned)
       /\ (postState # NoFile /\ load_state'.date = load_state.date)
          => (/\ Len(load_state'.posted) >= Len(load_state.posted)
              /\ SubSeq(load_state'.posted, 1, Len(load_state.posted)) = load_state.posted)
       /\ Len(load_state'.log) >= Len(load_state.log)
       /\ SubSeq(load_state'.log, 1, Len(load_state.log)) = load_state.log]_vars

\* a slot was posted on each of two days: the plan and the posted list are
\* the second day's and the log holds both entries
C13_Witness ==
    /\ postState # NoFile
    /\ postState[1].date = 1
    /\ Len(postState[1].posted) = 1
    /\ Len(postState[1].log) = 2
    /\ postState[1].log[1].time[1] = 0
    /\ postState[1].log[2].time[1] = 1

\* C14 (as stated): when the current time is inside [slot, slot + WINDOW_MIN]
\* of a stored planned slot that is not posted, also in the part of the window
\* after midnight, the run treats a slot as due and attempts a post
C14_DueThroughWholeWindow ==
    [][(/\ RunStarts
        /\ ~load_blocks_raises(tweets)
        /\ postState # NoFile
        /\ \E i \in 1..Len(load_state.planned) :
              /\ ~InSeq(load_state.planned[i], load_state.posted)
              /\ InWindow(load_state.date, load_state.planned[i], clock'))
       => (hist'.outcome = "posting" /\ due' # NoSlot)]_vars

\* C14 (amended): for every slot of today's plan (stored, or generated by this
\* run) that is not posted, a run at a time of the same calendar day inside
\* [slot, slot + WINDOW_MIN] treats that slot or an earlier due one as due and,
\* the content file holding a block, attempts a post
C14_DueThroughWindowOfTheDay ==
    [][(/\ PlanStepReturns
        /\ \E i \in 1..Len(hist'.saved.planned) :
              /\ ~InSeq(hist'.saved.planned[i], hist'.saved.posted)
              /\ InWindow(clock'[1], hist'.saved.planned[i], clock'))
       => (/\ hist'.outcome = "posting"
           /\ pc' = "posting"
           /\ blocks' # <<>>
           /\ hist'.saved.date = clock'[1]
           /\ InSeq(due', hist'.saved.planned)
           /\ ~InSeq(due', hist'.saved.posted)
           /\ InWindow(clock'[1], due', clock')
           /\ \A i \in 1..Len(hist'.saved.planned) :
                 (/\ ~InSeq(hist'.saved.planned[i], hist'.saved.posted)
                  /\ InWindow(clock'[1], hist'.saved.planned[i], clock'))
                 => str_leq(due', hist'.saved.planned[i]))]_vars

\* a run at the very end of a slot's window found the slot due
C14_Witness ==
    /\ pc = "posting"
    /\ due # NoSlot
    /\ instant(clock[1], clock[2]) =
          instant(state.date, due[1] * MINUTES_PER_HOUR + due[2]) + WINDOW_MIN

----------------------------------------------------------------------------
(* Properties of the dispatch loop (SpecLive) *)

LastTried(h) == h.tried[Len(h.tried)]

\* how many entries of bs have the raw lines raw
CountRaw(bs, raw) == Cardinality({i \in 1..Len(bs) : bs[i].raw = raw})

RawsOf(bs) == {bs[i].raw : i \in 1..Len(bs)}

\* C17: post_random_block always terminates. In one run every block is
\* submitted at most once and there are at most as many submissions as blocks
\* loaded; after a duplicate rejection with a block remaining the loop submits
\* another remaining block; and the loop ends exactly on a success, on a
\* failure other than a duplicate, or when no block remains
C17_PostLoopTerminates ==
    /\ [][/\ (pc' = "posting")
             => (/\ Len(blocks') + Len(hist'.tried) = Len(hist'.loaded)
                 /\ \A raw \in RawsOf(hist'.loaded) :
                       CountRaw(blocks', raw) + CountRaw(hist'.tried, raw) =
                          CountRaw(hist'.loaded, raw)
                 /\ \A i \in 1..Len(hist'.tried) : hist'.tried[i].res = "DUPLICATE")
          /\ Len(hist'.tried) <= Len(hist'.loaded)
          /\ \A raw \in RawsOf(hist'.tried) :
                CountRaw(hist'.tried, raw) <= CountRaw(hist'.loaded, raw)
          /\ (pc = "posting" /\ blocks # <<>>)
             => (/\ Len(hist'.tried) = Len(hist.tried) + 1
                 /\ \E idx \in 1..Len(blocks) :
                       /\ blocks[idx].raw = LastTried(hist').raw
                       /\ blocks[idx].text = LastTried(hist').text
                 /\ (pc' = "posting") <=> (LastTried(hist').res = "DUPLICATE")
                 /\ (hist'.outcome = "posted") <=> (LastTried(hist').res \in TweetIds)
                 /\ (hist'.outcome = "failed") <=> (LastTried(hist').res = None))
          /\ (pc = "posting" /\ blocks = <<>>)
             => (/\ pc' = "idle"
                 /\ hist'.outcome = "exhausted"
                 /\ hist'.tried = hist.tried)]_vars
    /\ (pc = "posting") ~> (pc = "idle")

\* a run in which every block loaded was rejected as a duplicate, so that the
\* loop ended with no block remaining
C17_Witness ==
    /\ pc = "idle"
    /\ hist.outcome = "exhausted"
    /\ Len(hist.loaded) = 3
    /\ Len(hist.tried) = 3

----------------------------------------------------------------------------
(* Properties of the block store (SpecStore): the in-memory list and the file *)

\* the indexes (0-based) at which raw_block matches in lines
Occurrences(lines, raw_block) ==
    {i \in 0..(Len(lines) - Len(raw_block)) :
        \A k \in 1..Len(raw_block) : lines[i + k] = raw_block[k]}

\* C19: after delete_block for a block of the in-memory list (whose raw lines
\* occur once in the file, so that the call removes that block), the raw
\* lines of every other block of the list still occur in the rewritten file
\* as a contiguous run, so that a later delete_block for it finds it
C19_OtherBlocksStillFound ==
    (/\ pc = "deleted"
     /\ hist.idx > 0
     /\ Cardinality(Occurrences(hist.file0, hist.arg)) = 1)
    => \A j \in 1..Len(hist.loaded) :
          j # hist.idx => Occurrences(tweets, hist.loaded[j].raw) # {}

----------------------------------------------------------------------------
(* Properties of the invocations (SpecDue): several slots due at once *)

\* the slots of st.planned that are unposted in st and whose window holds now
DueSlotsOf(st, now) ==
    {st.planned[i] : i \in {k \in 1..Len(st.planned) :
        /\ ~InSeq(st.planned[k], st.posted)
        /\ InWindow(st.date, st.planned[k], now)}}

EarliestOf(slots) == CHOOSE s \in slots : \A t \in slots : str_leq(s, t)

Successes(tried) == {i \in 1..Len(tried) : tried[i].res \in TweetIds}

\* C12: when several unposted slots are due at once, the run processes the
\* earliest of them alone: at most one block is posted, at most one slot (the
\* earliest due one) is added to posted, and the other due slots are still
\* unposted and due in the persisted state
C12_OnlyEarliestDueSlotProcessed ==
    (/\ hist.outcome \in {"posting", "posted", "failed", "exhausted"}
     /\ Cardinality(DueSlotsOf(hist.saved, clock)) >= 2)
    => LET dues == DueSlotsOf(hist.saved, clock)
           first == EarliestOf(dues)
       IN  /\ (pc = "posting") => (due = first)
           /\ Cardinality(Successes(hist.tried)) <= 1
           /\ (hist.outcome = "posted")
              => (/\ Cardinality(Successes(hist.tried)) = 1
                  /\ load_state.posted = Append(hist.saved.posted, first)
                  /\ Len(load_state.log) = Len(hist.saved.log) + 1)
           /\ (hist.outcome # "posted")
              => (/\ Successes(hist.tried) = {}
                  /\ load_state.posted = hist.saved.posted
                  /\ load_state.log = hist.saved.log)
           /\ load_state.planned = hist.saved.planned
           /\ \A s \in dues \ {first} :
                 /\ ~InSeq(s, load_state.posted)
                 /\ s \in DueSlotsOf(load_state, clock)
           /\ (hist.outcome = "posted")
              => find_due_slot(load_state, clock) = EarliestOf(dues \ {first})

\* a run that found two slots due posted for the first one, and the second
\* one is still due
C12_Witness ==
    /\ pc = "idle"
    /\ hist.outcome = "posted"
    /\ Cardinality(DueSlotsOf(hist.saved, clock)) = 2
    /\ Len(load_state.posted) = 1
    /\ find_due_slot(load_state, clock) # NoSlot
    /\ find_due_slot(load_state, clock) # load_state.posted[1]

----------------------------------------------------------------------------
(* Properties of eligible_pool() (SpecQuote) *)

\* the row at index i (1-based) is not among the SKIP_RECENT most recent
\* rows, has an all-digit id and, when MIN_AGE_HOURS > 0, a timestamp at or
\* before the age cutoff or one that does not parse
IsCandidate(i) ==
    /\ i <= Len(rows) - SKIP_RECENT
    /\ rows[i].id \in {"1001", "1002"}
    /\ (MIN_AGE_HOURS > 0)
       => \/ rows[i].et = NoTime
          \/ (rows[i].et[1] * MINUTES_PER_DAY + rows[i].et[2]) * SECONDS_PER_MINUTE
                <= (clock[1] * MINUTES_PER_DAY + clock[2]) * SECONDS_PER_MINUTE
                      - MIN_AGE_HOURS * SECONDS_PER_HOUR

RECURSIVE CandidatesFrom(_)
CandidatesFrom(i) ==
    IF i > Len(rows) THEN <<>>
    ELSE IF IsCandidate(i) THEN <<rows[i]>> \o CandidatesFrom(i + 1)
         ELSE CandidatesFrom(i + 1)

\* C16: eligible_pool returns exactly the candidate rows, in order; with
\* SKIP_RECENT = 0 every row is judged on its id and age
C16_PoolIsTheCandidates ==
    (pool # None) => (pool = CandidatesFrom(1))

\* C16, with at least one row skipped: eligible_pool returns exactly the
\* candidate rows
C16_PoolIsTheCandidatesWhenSkipping ==
    (pool # None /\ SKIP_RECENT >= 1) => (pool = CandidatesFrom(1))

----------------------------------------------------------------------------
(* Properties of weekly_thread (SpecWeekly) *)

\* this step is a run of weekly_thread.main()
WeeklyRuns == wt'.runs = wt.runs + 1

\* C15: a run removes the used block and saves the advanced cursor if and
\* only if every tweet of the thread was created; when a tweet fails, also
\* after earlier tweets of the thread were created, threads.txt and the state
\* file are as they were, the run returns 1, and the next run selects the
\* same block again
C15_RemovesIffAllCreated ==
    [][(WeeklyRuns /\ wt'.outcome # "ValueError")
       => (/\ wt'.rc \in {0, 1}
           /\ (wt'.rc = 0) <=> (wt'.lines # <<>> /\ wt'.created = wt'.lines)
           /\ (wt'.rc = 0)
              => (/\ threads' # threads
                  /\ Len(threads') < Len(threads)
                  /\ threadState' # NoFile
                  /\ IF Len(wt'.blocks) = 1
                     THEN threadState'[1].idx = -1
                     ELSE (threadState'[1].idx + 1) % (Len(wt'.blocks) - 1) =
                             wt'.idx % (Len(wt'.blocks) - 1))
           /\ (wt'.rc = 1)
              => (/\ threads' = threads
                  /\ threadState' = threadState
                  /\ Len(wt'.created) < Len(wt'.lines))
           /\ (wt.outcome = "failed")
              => (wt'.idx = wt.idx /\ wt'.lines = wt.lines /\ wt'.blocks = wt.blocks))]_vars

\* the second tweet of a thread failed after the first one was created, and
\* nothing was written
C15_Witness ==
    /\ wt.outcome = "failed"
    /\ wt.rc = 1
    /\ Len(wt.lines) = 2
    /\ Len(wt.created) = 1
    /\ Len(wt.blocks) >= 2
    /\ threads = wt.file0
    /\ threadState = wt.state0

\* every block begins and ends with a line that is not "---"
TextFramed(bs) ==
    \A i \in 1..Len(bs) : bs[i][1] # SEPARATOR /\ bs[i][Len(bs[i])] # SEPARATOR

\* C18: when a run posted and removed the block at index idx (of blocks that
\* all begin and end with a line of text), the next run
\* finds the other blocks at their places and selects the one that
\* immediately followed the removed block in the file (it has moved to index
\* idx), or the first block of the file when the removed block was the last;
\* a run that finds no state file selects the first block
C18_BlocksUsedInFileOrder ==
    [][/\ (WeeklyRuns /\ wt.outcome = "posted" /\ TextFramed(wt.blocks))
          => (/\ Len(thread_blocks(threads)) = Len(wt.blocks) - 1
              /\ (wt'.outcome # "ValueError")
                 => (/\ wt'.idx = IF wt.idx + 1 < Len(wt.blocks) THEN wt.idx ELSE 0
                     /\ wt'.lines = wt'.blocks[wt'.idx + 1]))
       /\ (WeeklyRuns /\ threadState = NoFile /\ wt'.outcome # "ValueError")
          => (wt'.idx = 0 /\ wt'.lines = wt'.blocks[1])]_vars

\* the blocks of a text with all of their lines, whole
RECURSIVE WholeBlocks(_)
WholeBlocks(chunks) ==
    IF chunks = <<>> THEN <<>>
    ELSE IF chunk_lines(Head(chunks)) # <<>>
         THEN <<chunk_lines(Head(chunks))>> \o WholeBlocks(Tail(chunks))
         ELSE WholeBlocks(Tail(chunks))

\* C20: a successful run changes threads.txt only by removing the used block:
\* every other block is still in the file, with all of its lines (also when
\* they are more than MAX_TWEETS or longer than 280 characters) and in the
\* same relative order
C20_OtherBlocksKeptWhole ==
    (wt.outcome = "posted")
    => (WholeBlocks(split_text(threads, <<>>, <<>>)) =
           RemoveAt(WholeBlocks(split_text(wt.file0, <<>>, <<>>)), wt.idx + 1))

====
